---- MODULE Spec2Model ----
(***************************************************************************)
(* Model of the PumpFun Bundler configuration CLI (class CLI and the       *)
(* configuration loader of main.ts).                                       *)
(*                                                                         *)
(* Text is a sequence of symbols.  A symbol stands for a fixed run of      *)
(* characters: "NL" is the line feed, "EQ" is '=', "WALLET_",              *)
(* "PRIVATE_KEY", "RPC_URL", "MIN_TIP_LAMPORTS", "TIP_PERCENT" and         *)
(* "FEE_RECIPIENT" are the key fragments the code searches for,            *)
(* "DEFAULT_RECIPIENT" is the 44-character default fee recipient,          *)
(* "B58x31" is a run of 31 base58 characters, "DOLLAR", "AMP", "BACKTICK"  *)
(* and "QUOTE" are the characters of the replacement patterns, and every   *)
(* other symbol is the single character it shows.  No key the code         *)
(* searches for straddles a symbol boundary other than the ones spelled    *)
(* out in the key patterns below, so substring search on symbols is        *)
(* substring search on text.                                               *)
(***************************************************************************)
EXTENDS Integers, Sequences, FiniteSets, TLC

VARIABLES
    fileExists,   \* the configuration file exists
    fileContent,  \* its text
    status,       \* CLI.status of the running instance
    feeSettings,  \* CLI.feeSettings of the running instance
    proc,         \* "menu" (in the loop of start), "exited" (code 0), "crashed" (code 1)
    last,         \* the handler that ran last, what was typed, whether it succeeded
    amount,       \* the argument of calculateTransactionPreview
    preview,      \* its result
    race,         \* two instances sharing the file: each one's upsert in progress
    mixed         \* a write has landed on bytes another instance wrote

vars == <<fileExists, fileContent, status, feeSettings, proc, last, amount, preview,
          race, mixed>>

\* ------------------------------------------------------------------ bounds

\* Longest configuration file (in symbols) a write may produce.
MaxFileLen == 22

\* Upserts the two racing instances may start, in all.
MaxRaceOps == 3

\* ------------------------------------------------------------ text helpers

Digits == {"0", "1", "2", "3", "4", "5", "6", "7", "8", "9"}

DigitVal(c) ==
    CASE c = "0" -> 0 [] c = "1" -> 1 [] c = "2" -> 2 [] c = "3" -> 3
      [] c = "4" -> 4 [] c = "5" -> 5 [] c = "6" -> 6 [] c = "7" -> 7
      [] c = "8" -> 8 [] OTHER -> 9

DigitSym(d) == <<"0", "1", "2", "3", "4", "5", "6", "7", "8", "9">>[d + 1]

\* String.prototype.length: the number of characters a text stands for.
SymLen(c) ==
    CASE c = "WALLET_" -> 7
      [] c = "PRIVATE_KEY" -> 11
      [] c = "RPC_URL" -> 7
      [] c = "MIN_TIP_LAMPORTS" -> 16
      [] c = "TIP_PERCENT" -> 11
      [] c = "FEE_RECIPIENT" -> 13
      [] c = "DEFAULT_RECIPIENT" -> 44
      [] c = "B58x31" -> 31
      [] c = "NaN" -> 3
      [] c = "undefined" -> 9
      [] OTHER -> 1

RECURSIVE StrLength(_)
StrLength(s) == IF s = <<>> THEN 0 ELSE SymLen(Head(s)) + StrLength(Tail(s))

\* s has pat at position i (1-based).
MatchAt(s, pat, i) ==
    /\ i >= 1
    /\ i + Len(pat) - 1 <= Len(s)
    /\ \A j \in 1..Len(pat) : s[i + j - 1] = pat[j]

\* String.prototype.indexOf, 1-based; 0 when pat does not occur.
IndexOf(s, pat) ==
    LET hits == {i \in 1..(Len(s) - Len(pat) + 1) : MatchAt(s, pat, i)}
    IN  IF hits = {} THEN 0 ELSE CHOOSE i \in hits : \A j \in hits : i <= j

\* String.prototype.includes.
Includes(s, pat) == IndexOf(s, pat) # 0

\* Position of the first line feed at or after i, Len(s) + 1 when there is none:
\* where a match of ".*" starting at i ends ('.' matches no line terminator).
LineEnd(s, i) ==
    LET nls == {j \in i..Len(s) : s[j] = "NL"}
    IN  IF nls = {} THEN Len(s) + 1 ELSE CHOOSE j \in nls : \A k \in nls : j <= k

\* String.prototype.split('\n').
RECURSIVE SplitLines(_)
SplitLines(s) ==
    LET e == LineEnd(s, 1)
    IN  IF e > Len(s) THEN <<s>>
        ELSE <<SubSeq(s, 1, e - 1)>> \o SplitLines(SubSeq(s, e + 1, Len(s)))

\* Array.prototype.join('\n').
RECURSIVE JoinLines(_)
JoinLines(ls) ==
    IF ls = <<>> THEN <<>>
    ELSE IF Len(ls) = 1 THEN ls[1]
    ELSE ls[1] \o <<"NL">> \o JoinLines(Tail(ls))

\* line.startsWith('WALLET_').
StartsWithWallet(line) == line # <<>> /\ Head(line) = "WALLET_"

\* lines.filter(line => line.startsWith('WALLET_')).
RECURSIVE WalletLines(_)
WalletLines(ls) ==
    IF ls = <<>> THEN <<>>
    ELSE (IF StartsWithWallet(Head(ls)) THEN <<Head(ls)>> ELSE <<>>)
         \o WalletLines(Tail(ls))

\* lines.filter(line => line !== x).
RECURSIVE LinesOtherThan(_, _)
LinesOtherThan(ls, x) ==
    IF ls = <<>> THEN <<>>
    ELSE (IF Head(ls) # x THEN <<Head(ls)>> ELSE <<>>) \o LinesOtherThan(Tail(ls), x)

\* line.split('=')[0]: the text before the first '='.
KeyOf(line) ==
    LET i == IndexOf(line, <<"EQ">>)
    IN  IF i = 0 THEN line ELSE SubSeq(line, 1, i - 1)

\* line.split('=') has a second element.
HasValue(line) == Includes(line, <<"EQ">>)

\* line.split('=')[1]: the text between the first and the second '='.
\* Only meaningful when HasValue(line); otherwise JavaScript gives undefined.
ValueOf(line) ==
    LET i    == IndexOf(line, <<"EQ">>)
        rest == SubSeq(line, i + 1, Len(line))
    IN  KeyOf(rest)

\* The replacement patterns of String.prototype.replace for a pattern without
\* capture groups: DOLLAR DOLLAR is a dollar sign, DOLLAR AMP the match,
\* DOLLAR BACKTICK the text before the match, DOLLAR QUOTE the text after
\* it; any other dollar sign stands for itself.
RECURSIVE ExpandReplacement(_, _, _, _)
ExpandReplacement(rep, matched, before, after) ==
    IF rep = <<>> THEN <<>>
    ELSE IF Head(rep) = "DOLLAR" /\ Len(rep) >= 2
            /\ rep[2] \in {"DOLLAR", "AMP", "BACKTICK", "QUOTE"}
    THEN (CASE rep[2] = "DOLLAR" -> <<"DOLLAR">>
            [] rep[2] = "AMP" -> matched
            [] rep[2] = "BACKTICK" -> before
            [] OTHER        -> after)
         \o ExpandReplacement(SubSeq(rep, 3, Len(rep)), matched, before, after)
    ELSE <<Head(rep)>> \o ExpandReplacement(Tail(rep), matched, before, after)

\* content.replace(/<pat>.*/, rep): the first match of pat, extended to the end
\* of its line, is replaced by the expanded rep.  Used only when pat occurs.
ReplaceFirst(content, pat, rep) ==
    LET i      == IndexOf(content, pat)
        e      == LineEnd(content, i + Len(pat))
        before == SubSeq(content, 1, i - 1)
        after  == SubSeq(content, e, Len(content))
    IN  before \o ExpandReplacement(rep, SubSeq(content, i, e - 1), before, after)
               \o after

\* The key texts.
WALLET_PRIVATE_KEY == <<"WALLET_", "PRIVATE_KEY">>
RPC_URL == <<"RPC_URL">>
MIN_TIP_LAMPORTS == <<"MIN_TIP_LAMPORTS">>
TIP_PERCENT == <<"TIP_PERCENT">>
FEE_RECIPIENT == <<"FEE_RECIPIENT">>
DefaultRecipient == <<"DEFAULT_RECIPIENT">>

\* The update-or-append the three configure handlers share:
\*   if content includes "key=" then replace /key=.*/ by "key=value"
\*   else append a line feed and "key=value"
UpsertAlwaysAppend(content, key, value) ==
    content \o <<"NL">> \o key \o <<"EQ">> \o value

Upsert(content, key, value) ==
    IF Includes(content, key \o <<"EQ">>)
    THEN ReplaceFirst(content, key \o <<"EQ">>, key \o <<"EQ">> \o value)
    ELSE content \o <<"NL">> \o key \o <<"EQ">> \o value

\* ---------------------------------------------------------------- numbers

\* A JavaScript number as far as the handlers use it: an integer or NaN.
NaN == [nan |-> TRUE, n |-> 0]
Num(k) == [nan |-> FALSE, n |-> k]

RECURSIVE DigitsValue(_, _)
DigitsValue(s, acc) ==
    IF s = <<>> \/ Head(s) \notin Digits THEN acc
    ELSE DigitsValue(Tail(s), 10 * acc + DigitVal(Head(s)))

\* parseInt(text): an optional '-', then the leading decimal digits; NaN when
\* there is none.  (The alphabet has no white space, '+' or hex prefix.)
parseInt(text) ==
    LET neg  == text # <<>> /\ Head(text) = "-"
        body == IF neg THEN Tail(text) ELSE text
    IN  IF body = <<>> \/ Head(body) \notin Digits THEN NaN
        ELSE Num((IF neg THEN -1 ELSE 1) * DigitsValue(body, 0))

RECURSIVE NatToStr(_)
NatToStr(k) ==
    IF k < 10 THEN <<DigitSym(k)>> ELSE NatToStr(k \div 10) \o <<DigitSym(k % 10)>>

\* Number to text, as a template literal does it.
NumToStr(x) ==
    IF x.nan THEN <<"NaN">>
    ELSE IF x.n < 0 THEN <<"-">> \o NatToStr(-x.n)
    ELSE NatToStr(x.n)

\* value || fallback on a prompt's text: the empty text is falsy.
OrDefault(text, fallback) == IF text = <<>> THEN fallback ELSE text

\* a < b on numbers: false when either is NaN.
NumLess(a, b) == ~a.nan /\ ~b.nan /\ a.n < b.n

\* ----------------------------------------------------------------- status

InitialStatus ==
    [walletConfigured |-> FALSE, rpcConfigured |-> FALSE, keypairsCreated |-> FALSE,
     poolBundleReady |-> FALSE, feeSettingsConfigured |-> FALSE]

DefaultFeeSettings ==
    [minTipLamports |-> Num(10000), tipPercent |-> Num(50),
     feeRecipient |-> DefaultRecipient]

\* loadStatus on the status the constructor has just set.
loadStatus(exists, content) ==
    IF exists
    THEN [InitialStatus EXCEPT
            !.walletConfigured = Includes(content, WALLET_PRIVATE_KEY \o <<"EQ">>),
            !.rpcConfigured = Includes(content, RPC_URL \o <<"EQ">>),
            !.feeSettingsConfigured =
                /\ Includes(content, MIN_TIP_LAMPORTS \o <<"EQ">>)
                /\ Includes(content, TIP_PERCENT \o <<"EQ">>)
                /\ Includes(content, FEE_RECIPIENT \o <<"EQ">>)]
    ELSE InitialStatus

\* let envContent = ''; if (fs.existsSync(path)) envContent = fs.readFileSync(path)
ReadOrEmpty == IF fileExists THEN fileContent ELSE <<>>

\* fs.writeFileSync(path, envContent): creates or truncates, then writes.
WriteFile(content) ==
    /\ Len(content) <= MaxFileLen
    /\ fileExists' = TRUE
    /\ fileContent' = content

\* No fee preview displayed.
NoPreview == [baseFee |-> 0, tipAmount |-> 0, totalFee |-> 0, nan |-> FALSE]

\* What a menu step leaves behind: the record of the step and the fee preview
\* it displayed; the variables of the two-instance specification are not its
\* concern.
DoneShowing(op, arg, ok, shown) ==
    /\ last' = [op |-> op, arg |-> arg, ok |-> ok]
    /\ preview' = shown
    /\ UNCHANGED <<amount, race, mixed>>

Done(op, arg, ok) == DoneShowing(op, arg, ok, NoPreview)

Instances == {"A", "B"}

\* An instance at its main menu with nothing done yet.
IdleInstance ==
    [pc |-> "menu", op |-> "none", arg |-> <<>>, snapshot |-> <<>>, buf |-> <<>>,
     status |-> InitialStatus, ops |-> 0]

NoRace == [i \in Instances |-> IdleInstance]

\* ------------------------------------------------------------ fee preview

\* Natural numbers of any size, as limbs of 15 bits, least significant first,
\* without high zero limbs: the arithmetic of IEEE 754 doubles needs 53-bit
\* mantissas and the exact product of a mantissa and an integer.
Pow2(k) == <<1, 2, 4, 8, 16, 32, 64, 128, 256, 512, 1024, 2048, 4096, 8192, 16384,
             32768>>[k + 1]

Limb == Pow2(15)

RECURSIVE NatToLimbs(_)
NatToLimbs(k) == IF k = 0 THEN <<>> ELSE <<k % Limb>> \o NatToLimbs(k \div Limb)

RECURSIVE LimbsToNat(_)
LimbsToNat(x) == IF x = <<>> THEN 0 ELSE Head(x) + Limb * LimbsToNat(Tail(x))

\* x without its high zero limbs.
RECURSIVE Trim(_)
Trim(x) == IF x # <<>> /\ x[Len(x)] = 0 THEN Trim(SubSeq(x, 1, Len(x) - 1)) ELSE x

RECURSIVE AddLimbs(_, _, _)
AddLimbs(x, y, carry) ==
    IF x = <<>> /\ y = <<>> THEN (IF carry = 0 THEN <<>> ELSE <<carry>>)
    ELSE LET xl  == IF x = <<>> THEN 0 ELSE Head(x)
             yl  == IF y = <<>> THEN 0 ELSE Head(y)
             sum == xl + yl + carry
         IN  <<sum % Limb>> \o AddLimbs(IF x = <<>> THEN x ELSE Tail(x),
                                        IF y = <<>> THEN y ELSE Tail(y), sum \div Limb)

\* x * d + carry for one limb d.
RECURSIVE MulLimb(_, _, _)
MulLimb(x, d, carry) ==
    IF x = <<>> THEN (IF carry = 0 THEN <<>> ELSE <<carry>>)
    ELSE LET prod == Head(x) * d + carry
         IN  <<prod % Limb>> \o MulLimb(Tail(x), d, prod \div Limb)

RECURSIVE MulLimbs(_, _)
MulLimbs(x, y) ==
    IF x = <<>> \/ y = <<>> THEN <<>>
    ELSE LET rest == MulLimbs(x, Tail(y))
         IN  Trim(AddLimbs(MulLimb(x, Head(y), 0),
                           IF rest = <<>> THEN <<>> ELSE <<0>> \o rest, 0))

\* The number of bits of one limb and of a number.
LimbBits(l) == Cardinality({k \in 0..14 : Pow2(k) <= l})

BitLen(x) == IF x = <<>> THEN 0 ELSE 15 * (Len(x) - 1) + LimbBits(x[Len(x)])

\* Bit i of x, the lowest being bit 1.
BitAt(x, i) == (x[((i - 1) \div 15) + 1] \div Pow2((i - 1) % 15)) % 2

\* Some bit among the lowest n bits of x is set.
LowBitsSet(x, n) ==
    \/ \E j \in 1..(n \div 15) : x[j] # 0
    \/ (n % 15 # 0 /\ x[(n \div 15) + 1] % Pow2(n % 15) # 0)

\* floor(x / 2^n), for n less than the number of bits of x.
ShiftRight(x, n) ==
    LET q == n \div 15
        r == n % 15
        limbAt(j) == IF j <= Len(x) THEN x[j] ELSE 0
    IN  Trim([j \in 1..(Len(x) - q) |->
                (limbAt(j + q) \div Pow2(r)) + (limbAt(j + q + 1) % Pow2(r)) * Pow2(15 - r)])

\* A finite non-negative double is the value m * 2^e with m of at most 53
\* bits.  The exact m * 2^e rounded to the nearest double, ties to even.
RoundToDouble(m, e) ==
    IF BitLen(m) <= 53 THEN [m |-> m, e |-> e]
    ELSE LET drop == BitLen(m) - 53
             kept == ShiftRight(m, drop)
             up   == /\ BitAt(m, drop) = 1
                     /\ (LowBitsSet(m, drop - 1) \/ kept[1] % 2 = 1)
         IN  [m |-> IF up THEN AddLimbs(kept, <<1>>, 0) ELSE kept, e |-> e + drop]

\* The first n limbs of the expansion of r / 100 (r < 100) in base 2^15, most
\* significant first, and the remainder left.
RECURSIVE Expansion(_, _, _)
Expansion(r, acc, n) ==
    IF n = 0 THEN [limbs |-> acc, r |-> r]
    ELSE Expansion((r * Limb) % 100, <<(r * Limb) \div 100>> \o acc, n - 1)

\* tipPercent / 100 as a double (tipPercent an integer in 0..3276799): the
\* quotient correctly rounded.  Five limbs of fraction hold more than the 55
\* bits rounding needs; a remainder left over is a sticky limb below them.
PercentFraction(tipPercent) ==
    IF tipPercent = 0 THEN [m |-> <<>>, e |-> 0]
    ELSE LET x == Expansion(tipPercent % 100, <<tipPercent \div 100>>, 5)
         IN  RoundToDouble(Trim(<<(IF x.r # 0 THEN 1 ELSE 0)>> \o x.limbs), -90)

\* amount * d as a double: the exact product, rounded once.
TimesAmount(amt, d) == RoundToDouble(MulLimbs(d.m, NatToLimbs(amt)), d.e)

\* Math.floor of a non-negative double below 2^31 with a negative exponent
\* (every product of an amount below 2^31 and a percent fraction has one).
Floor(d) ==
    IF -d.e >= BitLen(d.m) THEN 0 ELSE LimbsToNat(ShiftRight(d.m, -d.e))

Max(a, b) == IF a >= b THEN a ELSE b

baseFee == 5000

\* Math.floor(amount * (tipPercent / 100)) evaluated as one exact quotient.
TipShareExact(amt, tipPercent) ==
    (amt \div 100) * tipPercent + ((amt % 100) * tipPercent) \div 100

\* Math.floor(amount * (tipPercent / 100)): the division first, in doubles.
TipShare(amt, tipPercent) == Floor(TimesAmount(amt, PercentFraction(tipPercent)))

\* calculateTransactionPreview(amount) for an integer amount >= 0 and the
\* in-memory fee settings (estimatedCost, a display text, left out).  With a
\* NaN setting Math.max gives NaN: nan says tipAmount and totalFee are NaN.
calculateTransactionPreview(amt, fs) ==
    IF fs.minTipLamports.nan \/ fs.tipPercent.nan
    THEN [baseFee |-> baseFee, tipAmount |-> 0, totalFee |-> 0, nan |-> TRUE]
    ELSE LET tipAmount == Max(fs.minTipLamports.n, TipShare(amt, fs.tipPercent.n))
         IN  [baseFee |-> baseFee, tipAmount |-> tipAmount,
              totalFee |-> baseFee + tipAmount, nan |-> FALSE]

LAMPORTS_PER_SOL == 1000000000

\* ------------------------------------------------------------------ inputs

ShortKey == <<"B58x31">>
KeyA == <<"B58x31", "a">>
KeyB == <<"B58x31", "b">>
WalletKeyInputs == {<<>>, ShortKey, KeyA, KeyB}

UrlA == <<"a">>
UrlWithKeyText == <<"WALLET_", "PRIVATE_KEY", "EQ", "a">>
UrlWithBefore == <<"DOLLAR", "BACKTICK", "WALLET_">>
RpcUrlInputs == {<<>>, UrlA, UrlWithKeyText, UrlWithBefore}

\* What is typed at the three fee prompts: <<minimum tip, percent, recipient>>.
FeeInputs ==
    {<< <<>>, <<>>, <<>> >>,
     << <<"0">>, <<"2", "9">>, <<>> >>,
     << <<"0">>, <<>>, <<>> >>,
     << <<>>, <<"a">>, <<>> >>,
     << <<"-", "1">>, <<>>, <<>> >>,
     << <<>>, <<"1", "0", "1">>, <<>> >>,
     << <<>>, <<"-", "1">>, <<>> >>,
     << <<>>, <<>>, ShortKey >>}

IndexInputs == {<<>>, <<"a">>, <<"1">>, <<"2">>}
CountInputs == {<<>>, <<"0">>, <<"2">>}
ProceedInputs == {<<"y">>, <<"Y">>, <<"n">>}
AmountInputs == {<<>>, <<"1">>}

\* --------------------------------------------------------------- handlers

\* The validation both wallet prompts share: a non-empty key of 32 characters
\* or more.
KeyAcceptedOffByOne(walletKey) == walletKey # <<>> /\ StrLength(walletKey) >= 31

KeyAccepted(walletKey) == walletKey # <<>> /\ StrLength(walletKey) >= 32

\* The text handleConfigureWallet writes, from the text it read.
WalletContent(content, walletKey) == Upsert(content, WALLET_PRIVATE_KEY, walletKey)

handleConfigureWallet(walletKey) ==
    /\ proc = "menu"
    /\ IF KeyAccepted(walletKey)
       THEN /\ WriteFile(WalletContent(ReadOrEmpty, walletKey))
            /\ status' = [status EXCEPT !.walletConfigured = TRUE]
            /\ Done("configureWallet", <<walletKey>>, TRUE)
       ELSE /\ UNCHANGED <<fileExists, fileContent, status>>
            /\ Done("configureWallet", <<walletKey>>, FALSE)
    /\ UNCHANGED <<feeSettings, proc>>

\* The text handleConfigureRPC writes, from the text it read.
RpcContent(content, rpcUrl) == Upsert(content, RPC_URL, rpcUrl)

handleConfigureRPC(rpcUrl) ==
    /\ proc = "menu"
    /\ IF rpcUrl # <<>>
       THEN /\ WriteFile(RpcContent(ReadOrEmpty, rpcUrl))
            /\ status' = [status EXCEPT !.rpcConfigured = TRUE]
            /\ Done("configureRPC", <<rpcUrl>>, TRUE)
       ELSE /\ UNCHANGED <<fileExists, fileContent, status>>
            /\ Done("configureRPC", <<rpcUrl>>, FALSE)
    /\ UNCHANGED <<feeSettings, proc>>

\* The three validation throws of handleConfigureFees.
FeesRejectedNoUpperBound(minTipLamports, tipPercent, feeRecipient) ==
    \/ NumLess(minTipLamports, Num(0))
    \/ NumLess(tipPercent, Num(0))
    \/ StrLength(feeRecipient) < 32

FeesRejected(minTipLamports, tipPercent, feeRecipient) ==
    \/ NumLess(minTipLamports, Num(0))
    \/ NumLess(tipPercent, Num(0)) \/ NumLess(Num(100), tipPercent)
    \/ StrLength(feeRecipient) < 32

\* feeSettings.forEach(setting => update-or-append), in the array's order.
FeesContent(content, minTipLamports, tipPercent, feeRecipient) ==
    Upsert(Upsert(Upsert(content, MIN_TIP_LAMPORTS, NumToStr(minTipLamports)),
                  TIP_PERCENT, NumToStr(tipPercent)),
           FEE_RECIPIENT, feeRecipient)

\* The fee settings the sample preview of handleConfigureFees is computed
\* from: this.feeSettings, which the handler has not assigned yet.
SamplePreviewSettingsEntered(entered) == entered

SamplePreviewSettings(entered) == feeSettings

handleConfigureFees(minTipText, tipPercentText, recipientText) ==
    LET minTipLamports == parseInt(OrDefault(minTipText, <<"1", "0", "0", "0", "0">>))
        tipPercent     == parseInt(OrDefault(tipPercentText, <<"5", "0">>))
        feeRecipient   == OrDefault(recipientText, DefaultRecipient)
        arg            == <<minTipText, tipPercentText, recipientText>>
        entered        == [minTipLamports |-> minTipLamports,
                           tipPercent |-> tipPercent,
                           feeRecipient |-> feeRecipient]
        sampleAmount   == 1 * LAMPORTS_PER_SOL
    IN  /\ proc = "menu"
        /\ IF FeesRejected(minTipLamports, tipPercent, feeRecipient)
           THEN /\ UNCHANGED <<fileExists, fileContent, status, feeSettings>>
                /\ Done("configureFees", arg, FALSE)
           ELSE /\ WriteFile(FeesContent(ReadOrEmpty, minTipLamports, tipPercent,
                                         feeRecipient))
                /\ status' = [status EXCEPT !.feeSettingsConfigured = TRUE]
                /\ feeSettings' = entered
                /\ DoneShowing("configureFees", arg, TRUE,
                       calculateTransactionPreview(sampleAmount,
                                                   SamplePreviewSettings(entered)))
        /\ UNCHANGED proc

\* viewWallets throws a TypeError (value.slice on undefined) on reaching a
\* WALLET_-prefixed line without '='; nothing on its way to start() catches it.
ViewWalletsThrows ==
    /\ fileExists
    /\ LET walletLines == WalletLines(SplitLines(fileContent))
       IN  \E i \in 1..Len(walletLines) : ~HasValue(walletLines[i])

\* main's catch: console.error and process.exit(1).
Crash(op, arg) ==
    /\ proc' = "crashed"
    /\ Done(op, arg, FALSE)
    /\ UNCHANGED <<fileExists, fileContent, status, feeSettings>>

\* Manage Wallets, option 1.
viewWallets ==
    /\ proc = "menu"
    /\ IF ViewWalletsThrows
       THEN Crash("viewWallets", <<>>)
       ELSE /\ Done("viewWallets", <<>>, TRUE)
            /\ UNCHANGED <<fileExists, fileContent, status, feeSettings, proc>>

\* A match of /WALLET_\d+_PRIVATE_KEY/ starts at position i.
NumberedKeyAt(s, i) ==
    /\ i + 3 <= Len(s)
    /\ s[i] = "WALLET_"
    /\ s[i + 1] \in Digits
    /\ LET nondigits == {j \in (i + 1)..Len(s) : s[j] \notin Digits}
       IN  /\ nondigits # {}
           /\ LET j == CHOOSE j \in nondigits : \A k \in nondigits : j <= k
              IN  MatchAt(s, <<"_", "PRIVATE_KEY">>, j)

\* (envContent.match(/WALLET_\d+_PRIVATE_KEY/g) || []).length
walletCount(content) == Cardinality({i \in 1..Len(content) : NumberedKeyAt(content, i)})

\* Manage Wallets, option 2.
AddWalletContentFirstFree(content, walletKey) ==
    LET used == {n \in 1..(Len(content) + 1) :
                   Includes(content, <<"WALLET_">> \o NatToStr(n) \o <<"_", "PRIVATE_KEY">>)}
        free == CHOOSE n \in (1..(Len(content) + 1)) \ used :
                   \A m \in (1..(Len(content) + 1)) \ used : n <= m
    IN  content \o <<"NL", "WALLET_">> \o NatToStr(free)
                \o <<"_", "PRIVATE_KEY", "EQ">> \o walletKey

AddWalletContent(content, walletKey) ==
    content \o <<"NL", "WALLET_">> \o NatToStr(walletCount(content) + 1)
            \o <<"_", "PRIVATE_KEY", "EQ">> \o walletKey

addWallet(walletKey) ==
    /\ proc = "menu"
    /\ IF KeyAccepted(walletKey)
       THEN /\ WriteFile(AddWalletContent(ReadOrEmpty, walletKey))
            /\ Done("addWallet", <<walletKey>>, TRUE)
       ELSE /\ UNCHANGED <<fileExists, fileContent>>
            /\ Done("addWallet", <<walletKey>>, FALSE)
    /\ UNCHANGED <<status, feeSettings, proc>>

\* parseInt(prompt(...) || '0')
WalletIndexDefaultOne(indexText) == parseInt(OrDefault(indexText, <<"1">>))

WalletIndex(indexText) == parseInt(OrDefault(indexText, <<"0">>))

\* The index typed names a wallet line of the file.
IndexValid(indexText) ==
    LET walletIndex == WalletIndex(indexText)
    IN  /\ NumLess(Num(0), walletIndex)
        /\ fileExists
        /\ walletIndex.n <= Len(WalletLines(SplitLines(fileContent)))

\* Manage Wallets, option 3: every line equal to the chosen one is dropped.
RemoveWalletContent(content, k) ==
    LET lines          == SplitLines(content)
        walletToRemove == WalletLines(lines)[k]
    IN  JoinLines(LinesOtherThan(lines, walletToRemove))

removeWallet(indexText) ==
    /\ proc = "menu"
    /\ IF ViewWalletsThrows
       THEN Crash("removeWallet", <<indexText>>)
       ELSE /\ IF IndexValid(indexText)
               THEN /\ WriteFile(RemoveWalletContent(fileContent,
                                     WalletIndex(indexText).n))
                    /\ Done("removeWallet", <<indexText>>, TRUE)
               ELSE /\ UNCHANGED <<fileExists, fileContent>>
                    /\ Done("removeWallet", <<indexText>>, FALSE)
            /\ UNCHANGED <<status, feeSettings, proc>>

\* Manage Wallets, option 4: const [, value] = selectedWallet.split('=').
SetPrimaryContent(content, k) ==
    LET selectedWallet == WalletLines(SplitLines(content))[k]
        value == IF HasValue(selectedWallet) THEN ValueOf(selectedWallet)
                 ELSE <<"undefined">>
    IN  Upsert(content, WALLET_PRIVATE_KEY, value)

setPrimaryWallet(indexText) ==
    /\ proc = "menu"
    /\ IF ViewWalletsThrows
       THEN Crash("setPrimaryWallet", <<indexText>>)
       ELSE /\ IF IndexValid(indexText)
               THEN /\ WriteFile(SetPrimaryContent(fileContent, WalletIndex(indexText).n))
                    /\ status' = [status EXCEPT !.walletConfigured = TRUE]
                    /\ Done("setPrimaryWallet", <<indexText>>, TRUE)
               ELSE /\ UNCHANGED <<fileExists, fileContent, status>>
                    /\ Done("setPrimaryWallet", <<indexText>>, FALSE)
            /\ UNCHANGED <<feeSettings, proc>>

\* The prerequisite checks of the two creation handlers.
KeypairsPrerequisitesWalletOnly == status.walletConfigured

KeypairsPrerequisitesRpcOnly == status.rpcConfigured

KeypairsPrerequisites == status.walletConfigured /\ status.rpcConfigured

BundlePrerequisitesNoKeypairs == status.walletConfigured /\ status.rpcConfigured

BundlePrerequisites ==
    status.walletConfigured /\ status.rpcConfigured /\ status.keypairsCreated

\* The count passes isNaN(numKeypairs) || numKeypairs <= 0.
CountAcceptedFromZero(numKeypairs) == ~numKeypairs.nan /\ numKeypairs.n >= 0

CountAccepted(numKeypairs) == ~numKeypairs.nan /\ numKeypairs.n > 0

handleCreateKeypairs(countText) ==
    LET numKeypairs == parseInt(countText)
    IN  /\ proc = "menu"
        /\ IF KeypairsPrerequisites /\ CountAccepted(numKeypairs)
           THEN /\ status' = [status EXCEPT !.keypairsCreated = TRUE]
                /\ Done("createKeypairs", <<countText>>, TRUE)
           ELSE /\ UNCHANGED status
                /\ Done("createKeypairs", <<countText>>, FALSE)
        /\ UNCHANGED <<fileExists, fileContent, feeSettings, proc>>

\* proceed.toLowerCase() === 'y'
Confirmed(proceed) == proceed \in {<<"y">>, <<"Y">>}

\* parseFloat on what is typed at the amount prompt.  The texts typed here
\* are whole numbers, on which parseFloat and parseInt agree.
parseFloat(text) == parseInt(text)

\* The preview handleCreatePoolBundle displays: for an amount above zero only.
BundlePreview(amountText) ==
    LET amt == parseFloat(OrDefault(amountText, <<"0">>))
    IN  IF NumLess(Num(0), amt)
        THEN calculateTransactionPreview(amt.n * LAMPORTS_PER_SOL, feeSettings)
        ELSE NoPreview

handleCreatePoolBundle(amountText, proceed) ==
    /\ proc = "menu"
    /\ IF BundlePrerequisites
       THEN IF Confirmed(proceed)
            THEN /\ status' = [status EXCEPT !.poolBundleReady = TRUE]
                 /\ DoneShowing("createPoolBundle", <<amountText, proceed>>, TRUE,
                        BundlePreview(amountText))
            ELSE /\ UNCHANGED status
                 /\ DoneShowing("createPoolBundle", <<amountText, proceed>>, FALSE,
                        BundlePreview(amountText))
       ELSE /\ UNCHANGED status
            /\ Done("createPoolBundle", <<amountText, proceed>>, FALSE)
    /\ UNCHANGED <<fileExists, fileContent, feeSettings, proc>>

\* Option 6, an unknown main-menu option, and options 5 and unknown of the
\* wallet submenu: nothing but output.
handleViewConfiguration ==
    /\ proc = "menu"
    /\ Done("viewConfiguration", <<>>, TRUE)
    /\ UNCHANGED <<fileExists, fileContent, status, feeSettings, proc>>

InvalidOption ==
    /\ proc = "menu"
    /\ Done("invalidOption", <<>>, FALSE)
    /\ UNCHANGED <<fileExists, fileContent, status, feeSettings, proc>>

\* Option 8: running = false; start() returns and the process ends.
Exit ==
    /\ proc = "menu"
    /\ proc' = "exited"
    /\ Done("exit", <<>>, TRUE)
    /\ UNCHANGED <<fileExists, fileContent, status, feeSettings>>

\* The fee settings of a process that has just started: the constructor's
\* literals; loadStatus reads no fee value from the file.
StartupFeeSettingsFromFile ==
    IF fileExists /\ Includes(fileContent, TIP_PERCENT \o <<"EQ">>)
    THEN LET i == IndexOf(fileContent, TIP_PERCENT \o <<"EQ">>) + 2
         IN  [DefaultFeeSettings EXCEPT
                !.tipPercent = parseInt(SubSeq(fileContent, i,
                                               LineEnd(fileContent, i) - 1))]
    ELSE DefaultFeeSettings

StartupFeeSettings == DefaultFeeSettings

\* The flags of a process that has just started: all false from the
\* constructor, then the three that loadStatus derives from the file.
StartupStatusKeepingCreated ==
    [loadStatus(fileExists, fileContent) EXCEPT
        !.keypairsCreated = status.keypairsCreated,
        !.poolBundleReady = status.poolBundleReady]

StartupStatus == loadStatus(fileExists, fileContent)

\* The tool is launched again on the file it left: constructor and loadStatus.
\* The record of the step keeps the two creation flags of the process that ended.
Launch ==
    /\ proc \in {"exited", "crashed"}
    /\ proc' = "menu"
    /\ status' = StartupStatus
    /\ feeSettings' = StartupFeeSettings
    /\ Done("launch", <<status.keypairsCreated, status.poolBundleReady>>, TRUE)
    /\ UNCHANGED <<fileExists, fileContent>>

\* First launch, in a directory without a configuration file.
Init ==
    /\ fileExists = FALSE
    /\ fileContent = <<>>
    /\ status = loadStatus(FALSE, <<>>)
    /\ feeSettings = DefaultFeeSettings
    /\ proc = "menu"
    /\ last = [op |-> "launch", arg |-> <<>>, ok |-> TRUE]
    /\ amount = 0
    /\ preview = NoPreview
    /\ race = NoRace
    /\ mixed = FALSE

Next ==
    \/ \E k \in WalletKeyInputs : handleConfigureWallet(k)
    \/ \E u \in RpcUrlInputs : handleConfigureRPC(u)
    \/ \E c \in CountInputs : handleCreateKeypairs(c)
    \/ \E f \in FeeInputs : handleConfigureFees(f[1], f[2], f[3])
    \/ \E a \in AmountInputs, p \in ProceedInputs : handleCreatePoolBundle(a, p)
    \/ handleViewConfiguration
    \/ viewWallets
    \/ \E k \in WalletKeyInputs : addWallet(k)
    \/ \E i \in IndexInputs : removeWallet(i)
    \/ \E i \in IndexInputs : setPrimaryWallet(i)
    \/ InvalidOption
    \/ Exit
    \/ Launch

Spec == Init /\ [][Next]_vars

\* ------------------------------------------- two instances, one file

\* content without its first n characters.  A multi-character symbol cut in
\* two leaves its remaining characters as "?": no proper suffix of a symbol
\* can begin or complete one of the key texts with the values typed here.
RECURSIVE DropChars(_, _)
DropChars(content, n) ==
    IF n <= 0 \/ content = <<>> THEN content
    ELSE IF SymLen(Head(content)) <= n
    THEN DropChars(Tail(content), n - SymLen(Head(content)))
    ELSE [j \in 1..(SymLen(Head(content)) - n) |-> "?"] \o Tail(content)

\* The write of fs.writeFileSync, after its open has truncated the file: buf
\* goes to offset 0 of whatever the file holds by then; bytes beyond buf stay.
PwriteAppend(content, buf) == content \o buf

Pwrite(content, buf) == buf \o DropChars(content, StrLength(buf))

UrlB == <<"b">>

\* The upserts the racing instances choose from: <<handler, what is typed>>.
RaceInputs ==
    {<<"configureWallet", <<KeyA>>>>,
     <<"configureRPC", <<UrlA>>>>,
     <<"configureRPC", <<UrlB>>>>,
     <<"configureFees", << <<"0">>, <<"5">>, KeyA >> >>}

\* envContent as the chosen handler computes it from the text it read.
RaceContent(op, arg, content) ==
    CASE op = "configureWallet" -> WalletContent(content, arg[1])
      [] op = "configureRPC" -> RpcContent(content, arg[1])
      [] OTHER -> FeesContent(content, parseInt(arg[1]), parseInt(arg[2]), arg[3])

\* The flag the handler sets once its write has returned.
RaceStatus(op, st) ==
    CASE op = "configureWallet" -> [st EXCEPT !.walletConfigured = TRUE]
      [] op = "configureRPC" -> [st EXCEPT !.rpcConfigured = TRUE]
      [] OTHER -> [st EXCEPT !.feeSettingsConfigured = TRUE]

RaceFrame == UNCHANGED <<status, feeSettings, proc, last, amount, preview>>

\* Instance i takes a valid input and reads the file (existsSync,
\* readFileSync), computing the text it is going to write.
RaceRead(i, in) ==
    /\ race[i].pc = "menu"
    /\ race["A"].ops + race["B"].ops < MaxRaceOps
    /\ race' = [race EXCEPT ![i] =
                  [@ EXCEPT !.pc = "read", !.op = in[1], !.arg = in[2],
                            !.snapshot = ReadOrEmpty,
                            !.buf = RaceContent(in[1], in[2], ReadOrEmpty),
                            !.ops = @ + 1]]
    /\ UNCHANGED <<fileExists, fileContent, mixed>>
    /\ RaceFrame

\* writeFileSync opens the file with flag 'w': created or truncated.
RaceOpen(i) ==
    /\ race[i].pc = "read"
    /\ race' = [race EXCEPT ![i].pc = "opened"]
    /\ fileExists' = TRUE
    /\ fileContent' = <<>>
    /\ UNCHANGED mixed
    /\ RaceFrame

\* writeFileSync writes the text at offset 0; the handler sets its flag and
\* returns to the menu.
RaceWrite(i) ==
    /\ race[i].pc = "opened"
    /\ race' = [race EXCEPT ![i] =
                  [@ EXCEPT !.pc = "menu",
                            !.status = RaceStatus(race[i].op, race[i].status)]]
    /\ fileContent' = Pwrite(fileContent, race[i].buf)
    /\ mixed' = (mixed \/ StrLength(fileContent) > StrLength(race[i].buf))
    /\ UNCHANGED fileExists
    /\ RaceFrame

RaceNext ==
    \/ \E i \in Instances, in \in RaceInputs : RaceRead(i, in)
    \/ \E i \in Instances : RaceOpen(i)
    \/ \E i \in Instances : RaceWrite(i)

\* Both instances are launched in a directory without a configuration file.
SpecRace == Init /\ [][RaceNext]_vars

\* ------------------------------------------- the configuration loader

\* What String.prototype.trim strips.  (The prompts' texts here hold none.)
Whitespace == {"NL", "SP", "TAB", "CR"}

RECURSIVE TrimStart(_)
TrimStart(s) == IF s # <<>> /\ Head(s) \in Whitespace THEN TrimStart(Tail(s)) ELSE s

RECURSIVE TrimEnd(_)
TrimEnd(s) ==
    IF s # <<>> /\ s[Len(s)] \in Whitespace THEN TrimEnd(SubSeq(s, 1, Len(s) - 1))
    ELSE s

\* str.trim()
TrimText(s) == TrimEnd(TrimStart(s))

\* const [key, value] = line.split('=').map(str => str.trim()): value is the
\* text between the first and the second '='; the empty text stands for a
\* missing (undefined) value, falsy like it.
LoaderKey(line) == TrimText(KeyOf(line))

LoaderValue(line) == IF HasValue(line) THEN TrimText(ValueOf(line)) ELSE <<>>

\* envConfig[key] || "": the value of the last line with that key and a
\* non-empty value; the empty text when the file is absent or has none.
envConfig(exists, content, key) ==
    LET lines == SplitLines(content)
        hits  == {i \in 1..Len(lines) :
                    LoaderKey(lines[i]) = key /\ LoaderValue(lines[i]) # <<>>}
    IN  IF ~exists \/ hits = {} THEN <<>>
        ELSE LoaderValue(lines[CHOOSE i \in hits : \A j \in hits : j <= i])

walletKey(exists, content) == envConfig(exists, content, WALLET_PRIVATE_KEY)

rpcUrl(exists, content) == envConfig(exists, content, RPC_URL)

MainnetEndpoint == <<"https://api.mainnet-beta.solana.com">>

\* export const rpc = rpcUrl || "https://api.mainnet-beta.solana.com"
rpc(exists, content) ==
    IF rpcUrl(exists, content) = <<>> THEN MainnetEndpoint ELSE rpcUrl(exists, content)

\* ------------------------------------------------------------------ claims

\* The text of a line after its first '='.
FullValue(line) == SubSeq(line, IndexOf(line, <<"EQ">>) + 1, Len(line))

\* The lines of content whose key is key.
LinesWithKey(content, key) ==
    LET lines == SplitLines(content)
    IN  {i \in 1..Len(lines) : HasValue(lines[i]) /\ KeyOf(lines[i]) = key}

\* content has exactly one line with key, and its value is value.
ExactlyOneLine(content, key, value) ==
    LET lines == SplitLines(content)
        at    == LinesWithKey(content, key)
    IN  /\ Cardinality(at) = 1
        /\ \A i \in at : FullValue(lines[i]) = value

\* The same handler has just succeeded twice in a row.
TwiceInARow(op) == last.op = op /\ last.ok /\ last'.op = op /\ last'.ok

\* C1: upserting the same key twice leaves exactly one line with that key and
\* the latest value, for each of WALLET_PRIVATE_KEY, RPC_URL and the three fee
\* keys, from any file the tool can produce.
C1_UpsertTwiceOneLine ==
    [][/\ TwiceInARow("configureWallet")
          => ExactlyOneLine(fileContent', WALLET_PRIVATE_KEY, last'.arg[1])
       /\ TwiceInARow("configureRPC")
          => ExactlyOneLine(fileContent', RPC_URL, last'.arg[1])
       /\ TwiceInARow("configureFees")
          => /\ ExactlyOneLine(fileContent', MIN_TIP_LAMPORTS,
                     NumToStr(feeSettings'.minTipLamports))
             /\ ExactlyOneLine(fileContent', TIP_PERCENT,
                     NumToStr(feeSettings'.tipPercent))
             /\ ExactlyOneLine(fileContent', FEE_RECIPIENT,
                     feeSettings'.feeRecipient)]_vars

\* content without its k-th WALLET_-prefixed line, every other line kept.
WithoutKthWalletLine(content, k) ==
    LET lines == SplitLines(content)
        at    == CHOOSE i \in 1..Len(lines) :
                    /\ StartsWithWallet(lines[i])
                    /\ Len(WalletLines(SubSeq(lines, 1, i))) = k
    IN  JoinLines(SubSeq(lines, 1, at - 1) \o SubSeq(lines, at + 1, Len(lines)))

\* C2: removing wallet index k removes exactly the k-th WALLET_-prefixed line
\* in file order and leaves every other line unchanged: the line count drops
\* by one.
C2_RemoveExactlyKth ==
    [][last'.op = "removeWallet" /\ last'.ok
       => /\ fileContent' = WithoutKthWalletLine(fileContent, parseInt(last'.arg[1]).n)
          /\ Len(SplitLines(fileContent')) = Len(SplitLines(fileContent)) - 1]_vars

\* C3: keypairsCreated only with wallet and RPC configured; poolBundleReady
\* only with wallet, RPC and keypairs.
C3_Gating ==
    /\ status.keypairsCreated => status.walletConfigured /\ status.rpcConfigured
    /\ status.poolBundleReady =>
          status.walletConfigured /\ status.rpcConfigured /\ status.keypairsCreated

C3_Witness == status.poolBundleReady /\ last.op = "createPoolBundle"

\* C4 as stated: poolBundleReady only once the fee settings step is complete.
C4_BundleNeedsFees == status.poolBundleReady => status.feeSettingsConfigured

\* C4 as amended: the step that sets poolBundleReady is taken with wallet, RPC
\* and keypairs complete, whether or not the fee settings step is, and it
\* leaves feeSettingsConfigured as it was.
C4_BundleStep ==
    [][~status.poolBundleReady /\ status'.poolBundleReady
       => /\ status.walletConfigured /\ status.rpcConfigured
          /\ status.keypairsCreated
          /\ status'.feeSettingsConfigured = status.feeSettingsConfigured]_vars

C4_Witness ==
    /\ status.poolBundleReady /\ ~status.feeSettingsConfigured
    /\ last = [op |-> "createPoolBundle", arg |-> << <<>>, <<"y">> >>, ok |-> TRUE]

\* C5: a wallet key shorter than 32 characters (the empty one included) given
\* to Set wallet key or Add new wallet leaves the file and every flag as they
\* were.
C5_ShortKeyRejected ==
    [][last'.op \in {"configureWallet", "addWallet"}
          /\ StrLength(last'.arg[1]) < 32
       => UNCHANGED <<fileExists, fileContent, status>>]_vars

C5_Witness ==
    /\ last.op = "addWallet" /\ last.arg = <<ShortKey>> /\ ~last.ok
    /\ ~fileExists

\* What the claim calls an invalid fee input: a negative minimum tip, a percent
\* outside 0..100, or a recipient shorter than 32 characters.
InvalidFeeInput(arg) ==
    LET minTip  == parseInt(OrDefault(arg[1], <<"1", "0", "0", "0", "0">>))
        percent == parseInt(OrDefault(arg[2], <<"5", "0">>))
    IN  \/ ~minTip.nan /\ minTip.n < 0
        \/ ~percent.nan /\ (percent.n < 0 \/ percent.n > 100)
        \/ StrLength(OrDefault(arg[3], DefaultRecipient)) < 32

\* C6: on an invalid fee input Set fee settings writes nothing and leaves the
\* in-memory fee settings and feeSettingsConfigured as they were.
C6_InvalidFeesRejected ==
    [][last'.op = "configureFees" /\ InvalidFeeInput(last'.arg)
       => UNCHANGED <<fileExists, fileContent, feeSettings, status>>]_vars

C6_Witness ==
    /\ last = [op |-> "configureFees",
               arg |-> << <<>>, <<"1", "0", "1">>, <<>> >>, ok |-> FALSE]
    /\ feeSettings # DefaultFeeSettings

\* C10: whatever is chosen and typed, control returns to the main menu; the
\* loop ends only by option 8.
C10_BackToMenu ==
    [][proc = "menu" => proc' = "menu" \/ last'.op = "exit"]_vars

\* ------------------------------------------- the fee preview, on its own

PreviewMinTips == {0, 28, 10000}
PreviewPercents == {0, 1, 29, 50, 57, 100}
PreviewAmounts == {0, 1, 50, 100, 150, 1000000000}

\* An instance whose saved fee settings are any accepted pair of numbers,
\* about to preview any amount.
PreviewInit ==
    /\ fileExists = FALSE
    /\ fileContent = <<>>
    /\ status = InitialStatus
    /\ \E m \in PreviewMinTips, p \in PreviewPercents :
          feeSettings = [minTipLamports |-> Num(m), tipPercent |-> Num(p),
                         feeRecipient |-> DefaultRecipient]
    /\ proc = "menu"
    /\ last = [op |-> "launch", arg |-> <<>>, ok |-> TRUE]
    /\ amount \in PreviewAmounts
    /\ preview = NoPreview
    /\ race = NoRace
    /\ mixed = FALSE

ComputePreview ==
    /\ last.op = "launch"
    /\ preview' = calculateTransactionPreview(amount, feeSettings)
    /\ last' = [op |-> "preview", arg |-> <<>>, ok |-> TRUE]
    /\ UNCHANGED <<fileExists, fileContent, status, feeSettings, proc, amount, race,
                   mixed>>

PreviewNext == ComputePreview

SpecPreview == PreviewInit /\ [][PreviewNext]_vars

\* C7: baseFee = 5000, tipAmount = max(minTip, floor(a * p / 100)) and
\* totalFee = 5000 + tipAmount, for every percent in 0..100, minimum tip >= 0
\* and amount >= 0; 10000, 50 and 1,000,000,000 give 500,000,000 and
\* 500,005,000.
C7_PreviewFormula ==
    last.op = "preview" =>
        LET tip == Max(feeSettings.minTipLamports.n,
                       TipShareExact(amount, feeSettings.tipPercent.n))
        IN  /\ preview.baseFee = 5000
            /\ preview.tipAmount = tip
            /\ preview.totalFee = 5000 + tip
            /\ (/\ feeSettings.minTipLamports.n = 10000
                /\ feeSettings.tipPercent.n = 50
                /\ amount = 1000000000)
               => preview.tipAmount = 500000000 /\ preview.totalFee = 500005000

\* content has two lines with the same key.
HasDuplicateKey(content) ==
    LET lines == SplitLines(content)
    IN  \E i, j \in 1..Len(lines) :
          /\ i < j
          /\ HasValue(lines[i]) /\ HasValue(lines[j])
          /\ KeyOf(lines[i]) = KeyOf(lines[j])

\* Instance i completes its write in this step.
WriteReturns(i) == race[i].pc = "opened" /\ race'[i].pc = "menu"

\* C8: read and write of an upsert are separate steps and the last writer wins:
\* a write that covers what the file holds leaves exactly the text the writer
\* computed from its own earlier read, whatever was written in between; so an
\* instance's successful upsert can be lost while its flag stays true.
C8_LastWriterWins ==
    [][\A i \in Instances :
         WriteReturns(i) /\ StrLength(fileContent) <= StrLength(race[i].buf)
         => /\ fileContent' = RaceContent(race[i].op, race[i].arg, race[i].snapshot)
            /\ race'[i].status = RaceStatus(race[i].op, race[i].status)]_vars

\* A has upserted WALLET_PRIVATE_KEY and B RPC_URL, both successfully and
\* nothing else; the file has B's line and no line for A's key; A's flag is
\* true.
C8_Witness ==
    /\ \A i \in Instances : race[i].pc = "menu" /\ race[i].ops = 1
    /\ race["A"].op = "configureWallet" /\ race["A"].status.walletConfigured
    /\ race["B"].op = "configureRPC" /\ race["B"].status.rpcConfigured
    /\ LinesWithKey(fileContent, WALLET_PRIVATE_KEY) = {}
    /\ LinesWithKey(fileContent, RPC_URL) # {}
    /\ ~Includes(fileContent, WALLET_PRIVATE_KEY)

\* C9: racing upserts can leave two lines with the same key; they do so only
\* when one instance's write lands on bytes another wrote after the first had
\* truncated the file.
C9_DuplicatesOnlyWhenMixed == HasDuplicateKey(fileContent) => mixed

C9_Witness ==
    /\ HasDuplicateKey(fileContent)
    /\ \A i \in Instances : race[i].pc = "menu"

\* C11: with a prerequisite missing nothing is attempted: Create keypairs
\* without wallet or RPC, and Create pool bundle without wallet, RPC or
\* keypairs, leave the five flags, the in-memory fee settings and the file as
\* they were.
C11_NoPartialProgress ==
    [][\/ /\ last'.op = "createKeypairs"
          /\ ~(status.walletConfigured /\ status.rpcConfigured)
       \/ /\ last'.op = "createPoolBundle"
          /\ ~(status.walletConfigured /\ status.rpcConfigured
                /\ status.keypairsCreated)
       => UNCHANGED <<status, feeSettings, fileExists, fileContent>>]_vars

\* Create keypairs, with a valid count, has just been refused with the wallet
\* configured and the RPC not.
C11_Witness ==
    /\ last = [op |-> "createKeypairs", arg |-> << <<"2">> >>, ok |-> FALSE]
    /\ status.walletConfigured /\ ~status.rpcConfigured
    /\ fileExists

\* C12: Set RPC URL accepts any non-empty text u: afterwards the file has
\* exactly one line RPC_URL=u, with u verbatim, and rpcConfigured is true; on
\* empty input the file and all flags are as they were.
C12_RpcUrlVerbatim ==
    [][last'.op = "configureRPC"
       => IF last'.arg[1] # <<>>
          THEN /\ ExactlyOneLine(fileContent', RPC_URL, last'.arg[1])
               /\ status'.rpcConfigured
          ELSE UNCHANGED <<fileExists, fileContent, status>>]_vars

\* C13: without edits from outside the process the status cache never diverges
\* from the file: walletConfigured, rpcConfigured and feeSettingsConfigured
\* are what loadStatus would compute from the current file.
C13_CacheMatchesFile ==
    proc = "menu" =>
        LET loaded == loadStatus(fileExists, fileContent)
        IN  /\ status.walletConfigured = loaded.walletConfigured
            /\ status.rpcConfigured = loaded.rpcConfigured
            /\ status.feeSettingsConfigured = loaded.feeSettingsConfigured

\* ------------------------------------------------ the wallet operations alone

\* A key of 32 characters that ends in '='.
KeyWithEq == <<"B58x31", "EQ">>

WalletsKeyInputs == {ShortKey, KeyA, KeyB, KeyWithEq}

WalletsNext ==
    \/ \E k \in WalletsKeyInputs : handleConfigureWallet(k)
    \/ \E k \in WalletsKeyInputs : addWallet(k)
    \/ \E i \in IndexInputs : removeWallet(i)
    \/ \E i \in IndexInputs : setPrimaryWallet(i)

\* From a directory without a configuration file, only Set wallet key, Add new
\* wallet, Remove wallet and Set primary wallet are chosen.
SpecWallets == Init /\ [][WalletsNext]_vars

\* C14: Add new wallet gives the additional wallet a key no line has yet: after
\* any sequence of Add new wallet, Remove wallet, Set wallet key and Set
\* primary wallet from an absent file, no two lines have the same key.
C14_UniqueKeys == ~HasDuplicateKey(fileContent)

\* The lines of content whose key is none of keys, in file order.
LinesNotOf(content, keys) ==
    SelectSeq(SplitLines(content), LAMBDA line : KeyOf(line) \notin keys)

\* C15: an upsert touches only its own key: a successful Set wallet key, Set
\* RPC URL or Set fee settings leaves every line with another key as it was,
\* in content and in order.
C15_OnlyOwnKey ==
    [][/\ last'.op = "configureWallet" /\ last'.ok
          => LinesNotOf(fileContent', {WALLET_PRIVATE_KEY})
               = LinesNotOf(fileContent, {WALLET_PRIVATE_KEY})
       /\ last'.op = "configureRPC" /\ last'.ok
          => LinesNotOf(fileContent', {RPC_URL}) = LinesNotOf(fileContent, {RPC_URL})
       /\ last'.op = "configureFees" /\ last'.ok
          => LinesNotOf(fileContent', {MIN_TIP_LAMPORTS, TIP_PERCENT, FEE_RECIPIENT})
               = LinesNotOf(fileContent, {MIN_TIP_LAMPORTS, TIP_PERCENT,
                                          FEE_RECIPIENT})]_vars

\* C16: Set primary wallet with a valid index k makes the WALLET_PRIVATE_KEY
\* line carry the complete value of the k-th WALLET_-prefixed line, all that
\* follows its first '='; the promoted line and every other line stay as they
\* were; walletConfigured is set; without a WALLET_PRIVATE_KEY line one is
\* appended.
C16_PromoteKth ==
    [][last'.op = "setPrimaryWallet" /\ last'.ok
       => LET k        == parseInt(last'.arg[1]).n
              selected == WalletLines(SplitLines(fileContent))[k]
              after    == SplitLines(fileContent')
          IN  /\ LinesWithKey(fileContent', WALLET_PRIVATE_KEY) # {}
              /\ \A i \in LinesWithKey(fileContent', WALLET_PRIVATE_KEY) :
                    FullValue(after[i]) = FullValue(selected)
              /\ LinesNotOf(fileContent', {WALLET_PRIVATE_KEY})
                   = LinesNotOf(fileContent, {WALLET_PRIVATE_KEY})
              /\ status'.walletConfigured
              /\ LinesWithKey(fileContent, WALLET_PRIVATE_KEY) = {}
                 => fileContent' = fileContent \o <<"NL">> \o WALLET_PRIVATE_KEY
                                      \o <<"EQ">> \o FullValue(selected)]_vars

\* text is the decimal notation of a natural number.
IsNatText(text) == text # <<>> /\ \A i \in 1..Len(text) : text[i] \in Digits

\* C17: every fee value the tool persists is well-formed: after a successful
\* Set fee settings, whatever was typed, the written TIP_PERCENT is an integer
\* in 0..100, the written MIN_TIP_LAMPORTS a non-negative integer, and the
\* in-memory tipPercent and minTipLamports are the same numbers.
C17_FeesWellFormed ==
    [][last'.op = "configureFees" /\ last'.ok
       => LET after == SplitLines(fileContent')
          IN  /\ LinesWithKey(fileContent', TIP_PERCENT) # {}
              /\ \A i \in LinesWithKey(fileContent', TIP_PERCENT) :
                    /\ IsNatText(FullValue(after[i]))
                    /\ parseInt(FullValue(after[i])).n <= 100
                    /\ feeSettings'.tipPercent = parseInt(FullValue(after[i]))
              /\ LinesWithKey(fileContent', MIN_TIP_LAMPORTS) # {}
              /\ \A i \in LinesWithKey(fileContent', MIN_TIP_LAMPORTS) :
                    /\ IsNatText(FullValue(after[i]))
                    /\ feeSettings'.minTipLamports = parseInt(FullValue(after[i]))]_vars

\* C18: the fee preview Set fee settings shows is computed from the in-memory
\* fee settings in effect before the operation, not from the values just
\* entered; these replace the in-memory settings only once the preview has
\* been computed and the file written.  A rejected input shows no preview.
C18_PreviewBeforeSave ==
    [][last'.op = "configureFees"
       => IF last'.ok
          THEN preview' = calculateTransactionPreview(1 * LAMPORTS_PER_SOL, feeSettings)
          ELSE preview' = NoPreview /\ feeSettings' = feeSettings]_vars

\* Set fee settings has just saved values whose own preview would differ from
\* the one it displayed.
C18_Witness ==
    /\ last.op = "configureFees" /\ last.ok
    /\ ~preview.nan /\ ~feeSettings.tipPercent.nan
    /\ preview # calculateTransactionPreview(1 * LAMPORTS_PER_SOL, feeSettings)

\* C19: fee values are never loaded from the file: right after startup the
\* in-memory fee settings are 10000, 50 and the default recipient whatever the
\* file holds; they change only by a successful Set fee settings; and the
\* preview of Create pool bundle is computed from them, so after a restart it
\* uses the defaults until Set fee settings is run again.
C19_FeesNotLoaded ==
    [][/\ last'.op = "launch"
          => feeSettings' = [minTipLamports |-> Num(10000), tipPercent |-> Num(50),
                             feeRecipient |-> DefaultRecipient]
       /\ feeSettings' # feeSettings
          => last'.op = "launch" \/ (last'.op = "configureFees" /\ last'.ok)
       /\ last'.op = "createPoolBundle" /\ preview' # NoPreview
          => preview' = calculateTransactionPreview(
                            parseInt(last'.arg[1]).n * LAMPORTS_PER_SOL, feeSettings)]_vars

\* Create pool bundle has just previewed 1 SOL with the defaults in a process
\* that loaded feeSettingsConfigured as true from a file whose TIP_PERCENT is
\* not 50.
C19_Witness ==
    /\ last.op = "createPoolBundle" /\ last.arg[1] = <<"1">>
    /\ status.feeSettingsConfigured
    /\ Includes(fileContent, TIP_PERCENT \o <<"EQ">>)
    /\ ~Includes(fileContent, TIP_PERCENT \o <<"EQ", "5", "0">>)
    /\ feeSettings = DefaultFeeSettings
    /\ preview = [baseFee |-> 5000, tipAmount |-> 500000000,
                  totalFee |-> 500005000, nan |-> FALSE]

\* C20: Create keypairs and Create pool bundle only flip a status flag: neither
\* writes the configuration file, and neither flag is persisted: after a
\* restart keypairsCreated and poolBundleReady are both false, whatever the
\* file holds and whatever earlier runs did.
C20_CreatedNotPersisted ==
    [][/\ last'.op \in {"createKeypairs", "createPoolBundle"}
          => UNCHANGED <<fileExists, fileContent>>
       /\ last'.op = "launch"
          => ~status'.keypairsCreated /\ ~status'.poolBundleReady]_vars

\* The tool has just been started again after a run that had set both flags,
\* on a file from which wallet and RPC load as configured.
C20_Witness ==
    /\ last = [op |-> "launch", arg |-> <<TRUE, TRUE>>, ok |-> TRUE]
    /\ status.walletConfigured /\ status.rpcConfigured
    /\ ~status.keypairsCreated /\ ~status.poolBundleReady

\* C21: with the prerequisites met, Create keypairs given a count that is not
\* a number or is <= 0 leaves keypairsCreated as it was, and Create pool
\* bundle leaves poolBundleReady as it was unless the answer is y or Y; in
\* both cases no other flag and no file content changes.
C21_InvalidCountOrAnswer ==
    [][\/ /\ last'.op = "createKeypairs"
          /\ status.walletConfigured /\ status.rpcConfigured
          /\ LET n == parseInt(last'.arg[1]) IN n.nan \/ n.n <= 0
       \/ /\ last'.op = "createPoolBundle"
          /\ status.walletConfigured /\ status.rpcConfigured
          /\ status.keypairsCreated
          /\ last'.arg[2] \notin {<<"y">>, <<"Y">>}
       => UNCHANGED <<status, fileExists, fileContent>>]_vars

\* Create keypairs has just refused the count 0 with wallet and RPC
\* configured and no keypairs created yet.
C21_Witness ==
    /\ last = [op |-> "createKeypairs", arg |-> << <<"0">> >>, ok |-> FALSE]
    /\ status.walletConfigured /\ status.rpcConfigured
    /\ ~status.keypairsCreated

\* C22: Remove wallet and Set primary wallet given an index that is 0, not a
\* number or greater than the number of WALLET_-prefixed lines, or run without
\* a configuration file, leave the file as it was, do not create it, and leave
\* every flag as it was.
C22_InvalidIndexRejected ==
    [][/\ last'.op \in {"removeWallet", "setPrimaryWallet"}
       /\ LET n == parseInt(last'.arg[1])
          IN  \/ last'.arg[1] = <<>>
              \/ n.nan
              \/ n.n <= 0
              \/ ~fileExists
              \/ n.n > Len(WalletLines(SplitLines(fileContent)))
       => UNCHANGED <<fileExists, fileContent, status>>]_vars

\* Remove wallet has just refused index 2 on a file with one wallet line.
C22_Witness ==
    /\ last = [op |-> "removeWallet", arg |-> << <<"2">> >>, ok |-> FALSE]
    /\ fileExists
    /\ Len(WalletLines(SplitLines(fileContent))) = 1

\* C23: write/read round trip between the menu tool and the loader: for every
\* value v accepted by Set wallet key or Set RPC URL, values containing '='
\* included, the loader reads WALLET_PRIVATE_KEY, respectively RPC_URL, equal
\* to v from the resulting file; with RPC_URL absent or empty the loader's rpc
\* is the default mainnet endpoint.
C23_RoundTrip ==
    [][/\ last'.op = "configureWallet" /\ last'.ok
          => walletKey(fileExists', fileContent') = last'.arg[1]
       /\ last'.op = "configureRPC" /\ last'.ok
          => /\ rpcUrl(fileExists', fileContent') = last'.arg[1]
             /\ rpc(fileExists', fileContent') = last'.arg[1]
       /\ LinesWithKey(fileContent', RPC_URL) = {}
          => rpc(fileExists', fileContent') = MainnetEndpoint]_vars

====
